---- MODULE Spec2Model ----
(***************************************************************************)
(* A model of the Biblia API client (lib/client.ts): the option validator  *)
(* framework, the URL template renderer, the response transformers and the *)
(* endpoint pipeline validate -> renderUrl -> fetch -> transformResponse.  *)
(*                                                                         *)
(* JavaScript strings are sequences of one-character strings, so that      *)
(* toLowerCase, split, join and encodeURIComponent are computed character  *)
(* by character.  The alphabet is printable ASCII and one lone surrogate   *)
(* code unit, on which encodeURIComponent throws URIError.                 *)
(***************************************************************************)
EXTENDS Integers, Sequences, FiniteSets

VARIABLES clients, calls, probe, rendering

vars == <<clients, calls, probe, rendering>>

(***************************************************************************)
(* String literals of the source, spelled out in characters.               *)
(***************************************************************************)
\* BEGIN-LIT
Lit(s) ==
  CASE s = "constructor" -> <<"c","o","n","s","t","r","u","c","t","o","r">>
    [] s = "toString" -> <<"t","o","S","t","r","i","n","g">>
    [] s = "valueOf" -> <<"v","a","l","u","e","O","f">>
    [] s = "hasOwnProperty" -> <<"h","a","s","O","w","n","P","r","o","p","e","r","t","y">>
    [] s = "isPrototypeOf" -> <<"i","s","P","r","o","t","o","t","y","p","e","O","f">>
    [] s = "propertyIsEnumerable" -> <<"p","r","o","p","e","r","t","y","I","s","E","n","u","m","e","r","a","b","l","e">>
    [] s = "toLocaleString" -> <<"t","o","L","o","c","a","l","e","S","t","r","i","n","g">>
    [] s = "__proto__" -> <<"_","_","p","r","o","t","o","_","_">>
    [] s = "__defineGetter__" -> <<"_","_","d","e","f","i","n","e","G","e","t","t","e","r","_","_">>
    [] s = "__defineSetter__" -> <<"_","_","d","e","f","i","n","e","S","e","t","t","e","r","_","_">>
    [] s = "__lookupGetter__" -> <<"_","_","l","o","o","k","u","p","G","e","t","t","e","r","_","_">>
    [] s = "__lookupSetter__" -> <<"_","_","l","o","o","k","u","p","S","e","t","t","e","r","_","_">>
    [] s = "true" -> <<"t","r","u","e">>
    [] s = "false" -> <<"f","a","l","s","e">>
    [] s = "undefined" -> <<"u","n","d","e","f","i","n","e","d">>
    [] s = "null" -> <<"n","u","l","l">>
    [] s = "[object Object]" -> <<"[","o","b","j","e","c","t"," ","O","b","j","e","c","t","]">>
    [] s = "Option " -> <<"O","p","t","i","o","n"," ">>
    [] s = " must be one of " -> <<" ","m","u","s","t"," ","b","e"," ","o","n","e"," ","o","f"," ">>
    [] s = ", " -> <<","," ">>
    [] s = "." -> <<".">>
    [] s = " must be a string." -> <<" ","m","u","s","t"," ","b","e"," ","a"," ","s","t","r","i","n","g",".">>
    [] s = " must be a boolean." -> <<" ","m","u","s","t"," ","b","e"," ","a"," ","b","o","o","l","e","a","n",".">>
    [] s = " must be a number." -> <<" ","m","u","s","t"," ","b","e"," ","a"," ","n","u","m","b","e","r",".">>
    [] s = "asv" -> <<"a","s","v">>
    [] s = "arvandyke" -> <<"a","r","v","a","n","d","y","k","e">>
    [] s = "kjv" -> <<"k","j","v">>
    [] s = "lsg" -> <<"l","s","g">>
    [] s = "byz" -> <<"b","y","z">>
    [] s = "darby" -> <<"d","a","r","b","y">>
    [] s = "elzevir" -> <<"e","l","z","e","v","i","r">>
    [] s = "itdiodati1649" -> <<"i","t","d","i","o","d","a","t","i","1","6","4","9">>
    [] s = "emphbbl" -> <<"e","m","p","h","b","b","l">>
    [] s = "kjv1900" -> <<"k","j","v","1","9","0","0">>
    [] s = "kjvapoc" -> <<"k","j","v","a","p","o","c">>
    [] s = "leb" -> <<"l","e","b">>
    [] s = "scrmorph" -> <<"s","c","r","m","o","r","p","h">>
    [] s = "fi-raamattu" -> <<"f","i","-","r","a","a","m","a","t","t","u">>
    [] s = "rvr60" -> <<"r","v","r","6","0">>
    [] s = "rva" -> <<"r","v","a">>
    [] s = "bb-sbb-rusbt" -> <<"b","b","-","s","b","b","-","r","u","s","b","t">>
    [] s = "eo-zamenbib" -> <<"e","o","-","z","a","m","e","n","b","i","b">>
    [] s = "tr1881" -> <<"t","r","1","8","8","1">>
    [] s = "tr1894mr" -> <<"t","r","1","8","9","4","m","r">>
    [] s = "svv" -> <<"s","v","v">>
    [] s = "stephens" -> <<"s","t","e","p","h","e","n","s">>
    [] s = "tanakh" -> <<"t","a","n","a","k","h">>
    [] s = "wbtc-ptbrnt" -> <<"w","b","t","c","-","p","t","b","r","n","t">>
    [] s = "wh1881mr" -> <<"w","h","1","8","8","1","m","r">>
    [] s = "ylt" -> <<"y","l","t">>
    [] s = "bible" -> <<"b","i","b","l","e">>
    [] s = "passage" -> <<"p","a","s","s","a","g","e">>
    [] s = "format" -> <<"f","o","r","m","a","t">>
    [] s = "txt" -> <<"t","x","t">>
    [] s = "html" -> <<"h","t","m","l">>
    [] s = "style" -> <<"s","t","y","l","e">>
    [] s = "fullyFormatted" -> <<"f","u","l","l","y","F","o","r","m","a","t","t","e","d">>
    [] s = "oneVersePerLine" -> <<"o","n","e","V","e","r","s","e","P","e","r","L","i","n","e">>
    [] s = "oneVersePerLineFullReference" -> <<"o","n","e","V","e","r","s","e","P","e","r","L","i","n","e","F","u","l","l","R","e","f","e","r","e","n","c","e">>
    [] s = "quotation" -> <<"q","u","o","t","a","t","i","o","n">>
    [] s = "simpleParagraphs" -> <<"s","i","m","p","l","e","P","a","r","a","g","r","a","p","h","s">>
    [] s = "bibleTextOnly" -> <<"b","i","b","l","e","T","e","x","t","O","n","l","y">>
    [] s = "orationOneParagraph" -> <<"o","r","a","t","i","o","n","O","n","e","P","a","r","a","g","r","a","p","h">>
    [] s = "orationOneVersePerLine" -> <<"o","r","a","t","i","o","n","O","n","e","V","e","r","s","e","P","e","r","L","i","n","e">>
    [] s = "orationBibleParagraphs" -> <<"o","r","a","t","i","o","n","B","i","b","l","e","P","a","r","a","g","r","a","p","h","s">>
    [] s = "fullyFormattedWithFootnotes" -> <<"f","u","l","l","y","F","o","r","m","a","t","t","e","d","W","i","t","h","F","o","o","t","n","o","t","e","s">>
    [] s = "formatting" -> <<"f","o","r","m","a","t","t","i","n","g">>
    [] s = "redLetter" -> <<"r","e","d","L","e","t","t","e","r">>
    [] s = "footnotes" -> <<"f","o","o","t","n","o","t","e","s">>
    [] s = "citation" -> <<"c","i","t","a","t","i","o","n">>
    [] s = "paragraphs" -> <<"p","a","r","a","g","r","a","p","h","s">>
    [] s = "fullText" -> <<"f","u","l","l","T","e","x","t">>
    [] s = "header" -> <<"h","e","a","d","e","r">>
    [] s = "eachVerse" -> <<"e","a","c","h","V","e","r","s","e">>
    [] s = "footer" -> <<"f","o","o","t","e","r">>
    [] s = "start" -> <<"s","t","a","r","t">>
    [] s = "limit" -> <<"l","i","m","i","t">>
    [] s = "query" -> <<"q","u","e","r","y">>
    [] s = "mode" -> <<"m","o","d","e">>
    [] s = "verse" -> <<"v","e","r","s","e">>
    [] s = "fuzzy" -> <<"f","u","z","z","y">>
    [] s = "passages" -> <<"p","a","s","s","a","g","e","s">>
    [] s = "preview" -> <<"p","r","e","v","i","e","w">>
    [] s = "none" -> <<"n","o","n","e">>
    [] s = "text" -> <<"t","e","x","t">>
    [] s = "sort" -> <<"s","o","r","t">>
    [] s = "relevance" -> <<"r","e","l","e","v","a","n","c","e">>
    [] s = "strictQuery" -> <<"s","t","r","i","c","t","Q","u","e","r","y">>
    [] s = "short" -> <<"s","h","o","r","t">>
    [] s = "medium" -> <<"m","e","d","i","u","m">>
    [] s = "long" -> <<"l","o","n","g">>
    [] s = "tagChapters" -> <<"t","a","g","C","h","a","p","t","e","r","s">>
    [] s = "url" -> <<"u","r","l">>
    [] s = "tagFormat" -> <<"t","a","g","F","o","r","m","a","t">>
    [] s = "first" -> <<"f","i","r","s","t">>
    [] s = "second" -> <<"s","e","c","o","n","d">>
    [] s = "Options is required." -> <<"O","p","t","i","o","n","s"," ","i","s"," ","r","e","q","u","i","r","e","d",".">>
    [] s = " is not supported." -> <<" ","i","s"," ","n","o","t"," ","s","u","p","p","o","r","t","e","d",".">>
    [] s = "https://api.biblia.com/v1/" -> <<"h","t","t","p","s",":","/","/","a","p","i",".","b","i","b","l","i","a",".","c","o","m","/","v","1","/">>
    [] s = "key" -> <<"k","e","y">>
    [] s = "URI malformed" -> <<"U","R","I"," ","m","a","l","f","o","r","m","e","d">>
    [] s = "Parameter " -> <<"P","a","r","a","m","e","t","e","r"," ">>
    [] s = " is required." -> <<" ","i","s"," ","r","e","q","u","i","r","e","d",".">>
    [] s = "Unexpected response Content-Type: " -> <<"U","n","e","x","p","e","c","t","e","d"," ","r","e","s","p","o","n","s","e"," ","C","o","n","t","e","n","t","-","T","y","p","e",":"," ">>
    [] s = "application/json" -> <<"a","p","p","l","i","c","a","t","i","o","n","/","j","s","o","n">>
    [] s = "text/html" -> <<"t","e","x","t","/","h","t","m","l">>
    [] s = "text/plain" -> <<"t","e","x","t","/","p","l","a","i","n">>
    [] s = "image/jpeg" -> <<"i","m","a","g","e","/","j","p","e","g">>
    [] s = "bible/content/" -> <<"b","i","b","l","e","/","c","o","n","t","e","n","t","/">>
    [] s = "" -> <<>>
    [] s = "bible/contents/" -> <<"b","i","b","l","e","/","c","o","n","t","e","n","t","s","/">>
    [] s = "bible/search/" -> <<"b","i","b","l","e","/","s","e","a","r","c","h","/">>
    [] s = "bible/find/" -> <<"b","i","b","l","e","/","f","i","n","d","/">>
    [] s = "bible/find" -> <<"b","i","b","l","e","/","f","i","n","d">>
    [] s = "bible/image/" -> <<"b","i","b","l","e","/","i","m","a","g","e","/">>
    [] s = "bible/parse" -> <<"b","i","b","l","e","/","p","a","r","s","e">>
    [] s = "bible/scan" -> <<"b","i","b","l","e","/","s","c","a","n">>
    [] s = "bible/tag" -> <<"b","i","b","l","e","/","t","a","g">>
    [] s = "bible/compare" -> <<"b","i","b","l","e","/","c","o","m","p","a","r","e">>
    [] s = "baz" -> <<"b","a","z">>
    [] s = "s3 cr=t" -> <<"s","3"," ","c","r","=","t">>
    [] s = "Genesis 1:1" -> <<"G","e","n","e","s","i","s"," ","1",":","1">>
    [] s = "abc" -> <<"a","b","c">>
    [] s = "something" -> <<"s","o","m","e","t","h","i","n","g">>
    [] s = "Genesis 1" -> <<"G","e","n","e","s","i","s"," ","1">>
    [] s = "hi" -> <<"h","i">>
    [] s = "A sentence or two." -> <<"A"," ","s","e","n","t","e","n","c","e"," ","o","r"," ","t","w","o",".">>
    [] s = "A sentence or two" -> <<"A"," ","s","e","n","t","e","n","c","e"," ","o","r"," ","t","w","o">>
    [] s = "https://example.com/" -> <<"h","t","t","p","s",":","/","/","e","x","a","m","p","l","e",".","c","o","m","/">>
    [] s = "Geneis 1:1" -> <<"G","e","n","e","i","s"," ","1",":","1">>
    [] s = "Genesis 1:2" -> <<"G","e","n","e","s","i","s"," ","1",":","2">>
    [] s = "foo" -> <<"f","o","o">>
    [] s = "LEB" -> <<"L","E","B">>
    [] s = "x&key=z" -> <<"x","&","k","e","y","=","z">>
    [] s = "application/json; charset=utf-8" -> <<"a","p","p","l","i","c","a","t","i","o","n","/","j","s","o","n",";"," ","c","h","a","r","s","e","t","=","u","t","f","-","8">>
    [] s = "Application/JSON" -> <<"A","p","p","l","i","c","a","t","i","o","n","/","J","S","O","N">>
    [] s = ";application/json" -> <<";","a","p","p","l","i","c","a","t","i","o","n","/","j","s","o","n">>
    [] s = "text/html;a;b" -> <<"t","e","x","t","/","h","t","m","l",";","a",";","b">>
    [] s = "text/plain; charset=utf-8" -> <<"t","e","x","t","/","p","l","a","i","n",";"," ","c","h","a","r","s","e","t","=","u","t","f","-","8">>
    [] s = "image/png" -> <<"i","m","a","g","e","/","p","n","g">>
    [] s = "xyz" -> <<"x","y","z">>
    [] s = "Constructor" -> <<"C","o","n","s","t","r","u","c","t","o","r">>
    [] s = "a b&c=d" -> <<"a"," ","b","&","c","=","d">>
    [] s = "aZ09-_.~!'()*" -> <<"a","Z","0","9","-","_",".","~","!","'","(",")","*">>
    [] s = ": ?#[]@$&+,;=/%" -> <<":"," ","?","#","[","]","@","$","&","+",",",";","=","/","%">>
    [] s = "k y/1" -> <<"k"," ","y","/","1">>
    [] s = "Unexpected response Content-Type: image/jpeg" -> <<"U","n","e","x","p","e","c","t","e","d"," ","r","e","s","p","o","n","s","e"," ","C","o","n","t","e","n","t","-","T","y","p","e",":"," ","i","m","a","g","e","/","j","p","e","g">>
    [] s = "key=" -> <<"k","e","y","=">>
    [] s = "https://api.biblia.com/v1/bible/content/leb.html?passage=Genesis%201%3A1&style=fullyFormatted&formatting=abc&redLetter=true&footnotes=true&citation=true&paragraphs=true&fullText=true&header=header&eachVerse=eachVerse&footer=footer&key=baz" -> <<"h","t","t","p","s",":","/","/","a","p","i",".","b","i","b","l","i","a",".","c","o","m","/","v","1","/","b","i","b","l","e","/","c","o","n","t","e","n","t","/","l","e","b",".","h","t","m","l","?","p","a","s","s","a","g","e","=","G","e","n","e","s","i","s","%","2","0","1","%","3","A","1","&","s","t","y","l","e","=","f","u","l","l","y","F","o","r","m","a","t","t","e","d","&","f","o","r","m","a","t","t","i","n","g","=","a","b","c","&","r","e","d","L","e","t","t","e","r","=","t","r","u","e","&","f","o","o","t","n","o","t","e","s","=","t","r","u","e","&","c","i","t","a","t","i","o","n","=","t","r","u","e","&","p","a","r","a","g","r","a","p","h","s","=","t","r","u","e","&","f","u","l","l","T","e","x","t","=","t","r","u","e","&","h","e","a","d","e","r","=","h","e","a","d","e","r","&","e","a","c","h","V","e","r","s","e","=","e","a","c","h","V","e","r","s","e","&","f","o","o","t","e","r","=","f","o","o","t","e","r","&","k","e","y","=","b","a","z">>
    [] s = "string" -> <<"s","t","r","i","n","g">>
    [] s = "boolean" -> <<"b","o","o","l","e","a","n">>
    [] s = "number" -> <<"n","u","m","b","e","r">>
    [] s = " must be a " -> <<" ","m","u","s","t"," ","b","e"," ","a"," ">>
    [] s = ": ?#[]@!$&'()*+,;=/%" -> <<":"," ","?","#","[","]","@","!","$","&","'","(",")","*","+",",",";","=","/","%">>
    [] s = "https://api.biblia.com/v1/bible/find?a%20b%26c%3Dd=%3A%20%3F%23%5B%5D%40%24%26%2B%2C%3B%3D%2F%25&passage=aZ09-_.~!'()*&key=k%20y%2F1" -> <<"h","t","t","p","s",":","/","/","a","p","i",".","b","i","b","l","i","a",".","c","o","m","/","v","1","/","b","i","b","l","e","/","f","i","n","d","?","a","%","2","0","b","%","2","6","c","%","3","D","d","=","%","3","A","%","2","0","%","3","F","%","2","3","%","5","B","%","5","D","%","4","0","%","2","4","%","2","6","%","2","B","%","2","C","%","3","B","%","3","D","%","2","F","%","2","5","&","p","a","s","s","a","g","e","=","a","Z","0","9","-","_",".","~","!","'","(",")","*","&","k","e","y","=","k","%","2","0","y","%","2","F","1">>
    [] s = "https://api.biblia.com/v1/bible/find?query=hi&strictQuery=false&start=0&limit=10&key=baz" -> <<"h","t","t","p","s",":","/","/","a","p","i",".","b","i","b","l","i","a",".","c","o","m","/","v","1","/","b","i","b","l","e","/","f","i","n","d","?","q","u","e","r","y","=","h","i","&","s","t","r","i","c","t","Q","u","e","r","y","=","f","a","l","s","e","&","s","t","a","r","t","=","0","&","l","i","m","i","t","=","1","0","&","k","e","y","=","b","a","z">>
    [] s = "https://api.biblia.com/v1/bible/contents/LEB?key=baz" -> <<"h","t","t","p","s",":","/","/","a","p","i",".","b","i","b","l","i","a",".","c","o","m","/","v","1","/","b","i","b","l","e","/","c","o","n","t","e","n","t","s","/","L","E","B","?","k","e","y","=","b","a","z">>
    [] s = "query=x%26key%3Dz&" -> <<"q","u","e","r","y","=","x","%","2","6","k","e","y","%","3","D","z","&">>
    [] s = "key=s3%20cr%3Dt" -> <<"k","e","y","=","s","3","%","2","0","c","r","%","3","D","t">>
\* END-LIT

(***************************************************************************)
(* Bounds of the model.                                                    *)
(***************************************************************************)
\* how many properties of a base options object the caller changes
MaxEdits == 1
\* how many letter-case patterns of a declared enum value are tried: 2^MaskBits
MaskBits == 3
\* the calls: the caller awaits each call before it makes the next (as the
\* tests do), so one call is in flight at a time
CallIds == { 1 }

(***************************************************************************)
(* JavaScript values.                                                      *)
(***************************************************************************)
Undefined == [t |-> "undefined", s |-> <<>>, n |-> 0, b |-> FALSE]
Null == [t |-> "null", s |-> <<>>, n |-> 0, b |-> FALSE]
Str(chars) == [t |-> "string", s |-> chars, n |-> 0, b |-> FALSE]
Num(i) == [t |-> "number", s |-> <<>>, n |-> i, b |-> FALSE]
Bool(x) == [t |-> "boolean", s |-> <<>>, n |-> 0, b |-> x]
\* some object that is not null, e.g. {} or []
SomeObject == [t |-> "object", s |-> <<>>, n |-> 0, b |-> FALSE]

\* typeof value
typeof(value) == IF value.t = "null" THEN "object" ELSE value.t

\* The property names every plain object inherits from Object.prototype; a
\* lookup obj[name] of one of them on a hash built with Object.assign({}, ...)
\* yields a function (or, for __proto__, the prototype): a truthy value.
ObjectPrototypeKeys ==
  { Lit("constructor"), Lit("toString"), Lit("valueOf"), Lit("hasOwnProperty"),
    Lit("isPrototypeOf"), Lit("propertyIsEnumerable"), Lit("toLocaleString"),
    Lit("__proto__"), Lit("__defineGetter__"), Lit("__defineSetter__"),
    Lit("__lookupGetter__"), Lit("__lookupSetter__") }

\* !!hash[name] for a hash  Object.assign({}, ...names.map(n => ({[n]: true})))
HashLookup(names, name) == name \in names \/ name \in ObjectPrototypeKeys

Range(f) == { f[i] : i \in DOMAIN f }

RECURSIVE Flatten(_)
\* the concatenation of a sequence of strings
Flatten(ss) == IF ss = <<>> THEN <<>> ELSE Head(ss) \o Flatten(Tail(ss))

RECURSIVE join(_, _)
\* Array.prototype.join
join(ss, sep) ==
  IF ss = <<>> THEN <<>>
  ELSE IF Len(ss) = 1 THEN ss[1]
  ELSE ss[1] \o sep \o join(Tail(ss), sep)

UpperCaseLetters ==
  << "A","B","C","D","E","F","G","H","I","J","K","L","M",
     "N","O","P","Q","R","S","T","U","V","W","X","Y","Z" >>
LowerCaseLetters ==
  << "a","b","c","d","e","f","g","h","i","j","k","l","m",
     "n","o","p","q","r","s","t","u","v","w","x","y","z" >>
Digits == << "0","1","2","3","4","5","6","7","8","9" >>

IndexOf(seq, x) == CHOOSE i \in DOMAIN seq : seq[i] = x

toLowerCaseChar(c) ==
  IF c \in Range(UpperCaseLetters)
  THEN LowerCaseLetters[IndexOf(UpperCaseLetters, c)] ELSE c
toUpperCaseChar(c) ==
  IF c \in Range(LowerCaseLetters)
  THEN UpperCaseLetters[IndexOf(LowerCaseLetters, c)] ELSE c

\* String.prototype.toLowerCase
toLowerCase(chars) == [i \in DOMAIN chars |-> toLowerCaseChar(chars[i])]

\* printable ASCII, code points 32..126 in order ("GRAVE" stands for the
\* grave accent, code point 96, which a string of this language cannot hold)
Ascii ==
  << " ","!","\"","#","$","%","&","'","(",")","*","+",",","-",".","/",
     "0","1","2","3","4","5","6","7","8","9",":",";","<","=",">","?",
     "@","A","B","C","D","E","F","G","H","I","J","K","L","M","N","O",
     "P","Q","R","S","T","U","V","W","X","Y","Z","[","\\","]","^","_",
     "GRAVE","a","b","c","d","e","f","g","h","i","j","k","l","m","n","o",
     "p","q","r","s","t","u","v","w","x","y","z","{","|","}","~" >>
charCode(c) == 31 + IndexOf(Ascii, c)
HexDigits == << "0","1","2","3","4","5","6","7","8","9","A","B","C","D","E","F" >>

\* the characters encodeURIComponent leaves alone: A-Z a-z 0-9 - _ . ! ~ * ' ( )
uriUnreserved ==
  Range(UpperCaseLetters) \cup Range(LowerCaseLetters) \cup Range(Digits)
    \cup { "-", "_", ".", "!", "~", "*", "'", "(", ")" }

\* as encodeChar, but with the set encodeURI leaves alone
encodeCharAsEncodeURI(c) ==
  IF c \in uriUnreserved \cup { ";", "/", "?", ":", "@", "&", "=", "+", "$", ",", "#" } THEN << c >>
  ELSE << "%", HexDigits[(charCode(c) \div 16) + 1], HexDigits[(charCode(c) % 16) + 1] >>
encodeChar(c) ==
  IF c \in uriUnreserved THEN << c >>
  ELSE << "%", HexDigits[(charCode(c) \div 16) + 1], HexDigits[(charCode(c) % 16) + 1] >>

RECURSIVE decimal(_)
decimal(i) == IF i < 10 THEN << Digits[i + 1] >> ELSE decimal(i \div 10) \o << Digits[(i % 10) + 1] >>

\* String(value), as encodeURIComponent and template literals apply it
StringOf(value) ==
  CASE value.t = "string" -> value.s
    [] value.t = "number" -> IF value.n < 0 THEN <<"-">> \o decimal(-value.n) ELSE decimal(value.n)
    [] value.t = "boolean" -> IF value.b THEN Lit("true") ELSE Lit("false")
    [] value.t = "undefined" -> Lit("undefined")
    [] value.t = "null" -> Lit("null")
    [] OTHER -> Lit("[object Object]")

\* the code unit U+D800 with no low surrogate after it
LoneSurrogate == "\\uD800"

\* encodeURIComponent(value) throws URIError: the string holds a lone surrogate
encodeThrows(value) ==
  value.t = "string" /\ \E i \in DOMAIN value.s : value.s[i] = LoneSurrogate

\* encodeURIComponent(value), where it does not throw
encodeURIComponent(value) ==
  LET chars == StringOf(value)
  IN  Flatten([i \in DOMAIN chars |-> encodeChar(chars[i])])

(***************************************************************************)
(* Option validator framework (lib/client.ts lines 111-232).               *)
(* A thrown Error is [threw |-> TRUE, message |-> its message]; a normal   *)
(* return is Passed.                                                       *)
(***************************************************************************)
Passed == [threw |-> FALSE, message |-> <<>>]
Throw(message) == [threw |-> TRUE, message |-> message]

\* The rule factories.  A rule is the factory's closure: its kind, the enum's
\* declared values with the hash built from them, and whether it is the
\* .optional variant.
validateIsString == [kind |-> "string", values |-> <<>>, valuesHash |-> {}, optional |-> FALSE]
validateIsBoolean == [kind |-> "boolean", values |-> <<>>, valuesHash |-> {}, optional |-> FALSE]
validateIsNumber == [kind |-> "number", values |-> <<>>, valuesHash |-> {}, optional |-> FALSE]

\* const valuesHash = Object.assign({}, ...values.map(value => ({ [value.toLowerCase()]: true })))
valuesHashKeys(values) == { toLowerCase(values[i]) : i \in DOMAIN values }

validateEnumMembership(values) ==
  [kind |-> "enum", values |-> values, valuesHash |-> valuesHashKeys(values), optional |-> FALSE]
optional(rule) == [rule EXCEPT !.optional = TRUE]

\* const errorMessage = ..., computed when the factory is given the option name
errorMessageOf(rule, optionName) ==
  Lit("Option ") \o optionName \o
    (CASE rule.kind = "enum" -> Lit(" must be one of ") \o join(rule.values, Lit(", ")) \o Lit(".")
       [] rule.kind = "string" -> Lit(" must be a string.")
       [] rule.kind = "boolean" -> Lit(" must be a boolean.")
       [] rule.kind = "number" -> Lit(" must be a number."))

\* createValidator(key): the validate function of one declared option
createValidator(rule, optionName) ==
  [key |-> optionName, rule |-> rule, errorMessage |-> errorMessageOf(rule, optionName)]

\* the validate function of validateEnumMembership(...values)(optionName)
enumValidateCaseSensitive(validator, value) ==
  IF typeof(value) # "string" \/ ~HashLookup(validator.rule.valuesHash, value.s)
  THEN Throw(validator.errorMessage)
  ELSE Passed
enumValidate(validator, value) ==
  IF typeof(value) # "string" \/ ~HashLookup(validator.rule.valuesHash, toLowerCase(value.s))
  THEN Throw(validator.errorMessage)
  ELSE Passed

\* validateIsString, validateIsBoolean, validateIsNumber: typeof value !== kind
typeValidate(validator, value) ==
  IF typeof(value) # validator.rule.kind THEN Throw(validator.errorMessage) ELSE Passed

\* a declared option's validate function applied to value; allowOptional's
\* wrapper returns at once on undefined
ruleValidate(validator, value) ==
  IF validator.rule.optional /\ value = Undefined THEN Passed
  ELSE IF validator.rule.kind = "enum" THEN enumValidate(validator, value)
  ELSE typeValidate(validator, value)

(***************************************************************************)
(* The declared schemas (lib/client.ts lines 234-339), in declaration      *)
(* order: the validate functions of createOptionsValidator's hash.         *)
(***************************************************************************)
F(key, rule) == createValidator(rule, Lit(key))

availableBibles ==
  << Lit("asv"), Lit("arvandyke"), Lit("kjv"), Lit("lsg"), Lit("byz"), Lit("darby"),
     Lit("elzevir"), Lit("itdiodati1649"), Lit("emphbbl"), Lit("kjv1900"),
     Lit("kjvapoc"), Lit("leb"), Lit("scrmorph"), Lit("fi-raamattu"), Lit("rvr60"),
     Lit("rva"), Lit("bb-sbb-rusbt"), Lit("eo-zamenbib"), Lit("tr1881"),
     Lit("tr1894mr"), Lit("svv"), Lit("stephens"), Lit("tanakh"),
     Lit("wbtc-ptbrnt"), Lit("wh1881mr"), Lit("ylt") >>

bibleVersionValidator == validateEnumMembership(availableBibles)

validateBibleContentOptions ==
  << F("bible", bibleVersionValidator),
     F("passage", validateIsString),
     F("format", validateEnumMembership(<< Lit("txt"), Lit("html"), Lit("txt"), Lit("html") >>)),
     F("style", optional(validateEnumMembership(
        << Lit("fullyFormatted"), Lit("oneVersePerLine"),
           Lit("oneVersePerLineFullReference"), Lit("quotation"),
           Lit("simpleParagraphs"), Lit("bibleTextOnly"),
           Lit("orationOneParagraph"), Lit("orationOneVersePerLine"),
           Lit("orationBibleParagraphs"), Lit("fullyFormattedWithFootnotes") >>))),
     F("formatting", optional(validateIsString)),
     F("redLetter", optional(validateIsBoolean)),
     F("footnotes", optional(validateIsBoolean)),
     F("citation", optional(validateIsBoolean)),
     F("paragraphs", optional(validateIsBoolean)),
     F("fullText", optional(validateIsBoolean)),
     F("header", optional(validateIsString)),
     F("eachVerse", optional(validateIsString)),
     F("footer", optional(validateIsString)) >>

pagingOptions ==
  << F("start", optional(validateIsNumber)),
     F("limit", optional(validateIsNumber)) >>

validateSearchOptions ==
  << F("bible", bibleVersionValidator),
     F("query", validateIsString),
     F("mode", optional(validateEnumMembership(<< Lit("verse"), Lit("fuzzy") >>))),
     F("passages", optional(validateIsString)),
     F("preview", optional(validateEnumMembership(<< Lit("none"), Lit("text"), Lit("html") >>))),
     F("sort", optional(validateEnumMembership(<< Lit("relevance"), Lit("passage") >>))) >>
  \o pagingOptions

validateSpecificBibleOptions ==
  << F("bible", bibleVersionValidator) >>

validateFindOptions ==
  << F("query", optional(validateIsString)),
     F("strictQuery", optional(validateIsBoolean)) >>
  \o pagingOptions

validateParseOptions ==
  << F("passage", validateIsString),
     F("style", optional(validateEnumMembership(<< Lit("short"), Lit("medium"), Lit("long") >>))) >>

validateScanOptions ==
  << F("text", validateIsString),
     F("tagChapters", optional(validateIsBoolean)) >>

validateTagOptions ==
  << F("text", optional(validateIsString)),
     F("url", optional(validateIsString)),
     F("tagFormat", optional(validateIsString)),
     F("tagChapters", optional(validateIsBoolean)) >>

validateCompareOptions ==
  << F("first", validateIsString),
     F("second", validateIsString) >>

(***************************************************************************)
(* The options argument of an endpoint call: undefined, null, a primitive  *)
(* number, or an object whose own enumerable properties are `entries`, in  *)
(* iteration order (no key is an array index, so that is insertion order). *)
(***************************************************************************)
OptUndefined == [t |-> "undefined", n |-> 0, entries |-> <<>>]
OptNull == [t |-> "null", n |-> 0, entries |-> <<>>]
OptNumber(i) == [t |-> "number", n |-> i, entries |-> <<>>]
Obj(entries) == [t |-> "object", n |-> 0, entries |-> entries]
P(key, value) == [k |-> Lit(key), v |-> value]
S(chars) == Str(Lit(chars))

\* !options is false
Truthy(options) == options.t = "object" \/ (options.t = "number" /\ options.n # 0)

\* Object.entries(value)
smartEntries(options) == options.entries

\* the keys  for (const key in options)  visits, in order
ForInKeys(options) == [i \in DOMAIN options.entries |-> options.entries[i].k]

HasOwn(options, key) == \E i \in DOMAIN options.entries : options.entries[i].k = key

\* options[key]: the own property, else what Object.prototype provides
Get(options, key) ==
  IF HasOwn(options, key)
  THEN options.entries[CHOOSE i \in DOMAIN options.entries : options.entries[i].k = key].v
  ELSE IF key \in ObjectPrototypeKeys THEN SomeObject
  ELSE Undefined

Min(set) == CHOOSE i \in set : \A j \in set : i <= j

SchemaKeys(validators) == { validators[i].key : i \in DOMAIN validators }

\* !!validateFunctions[key], validateFunctions = Object.assign({}, ...entries)
validateFunctionsHas(validators, key) == HashLookup(SchemaKeys(validators), key)

\* the indices of the for-in keys that make validate throw "not supported"
UnsupportedAt(validators, options) ==
  { i \in DOMAIN ForInKeys(options) : ~validateFunctionsHas(validators, ForInKeys(options)[i]) }

\* the declared rules that throw on options
FailingRules(validators, options) ==
  { i \in DOMAIN validators :
      ruleValidate(validators[i], Get(options, validators[i].key)).threw }

\* the function createOptionsValidator(validators) returns, applied to options
validate(validators, options) ==
  IF ~Truthy(options) THEN Throw(Lit("Options is required."))
  ELSE IF UnsupportedAt(validators, options) # {}
  THEN Throw(Lit("Option ") \o ForInKeys(options)[Min(UnsupportedAt(validators, options))]
             \o Lit(" is not supported."))
  ELSE IF FailingRules(validators, options) # {}
  THEN LET i == Min(FailingRules(validators, options))
       IN  ruleValidate(validators[i], Get(options, validators[i].key))
  ELSE Passed

(***************************************************************************)
(* URL template renderer (lib/client.ts lines 447-491).                    *)
(***************************************************************************)
baseUrl == Lit("https://api.biblia.com/v1/")

\* createUrlTemplate`...`: the literal fragments and the placeholder names
Template0(part0) == [urlParts |-> << Lit(part0) >>, names |-> << >>]
Template1(part0, name1, part1) ==
  [urlParts |-> << Lit(part0), Lit(part1) >>, names |-> << Lit(name1) >>]
Template2(part0, name1, part1, name2, part2) ==
  [urlParts |-> << Lit(part0), Lit(part1), Lit(part2) >>, names |-> << Lit(name1), Lit(name2) >>]

\* !!namesHash[name]
namesHashHas(template, name) == HashLookup(Range(template.names), name)

\* the placeholders whose option is undefined
MissingNames(template, options) ==
  { i \in DOMAIN template.names : Get(options, template.names[i]) = Undefined }

\* names.map(...).join('')
renderPathWithoutFragments(template, options) ==
  Flatten([i \in DOMAIN template.names |-> encodeURIComponent(Get(options, template.names[i]))])
renderPath(template, options) ==
  Flatten([i \in DOMAIN template.names |->
             encodeURIComponent(Get(options, template.names[i])) \o template.urlParts[i + 1]])

\* as queryEntries, but ['key', apiKey] comes first and the caller's entries
\* follow it
queryEntriesKeyFirst(template, apiKey, options) ==
  << [k |-> Lit("key"), v |-> Str(apiKey)] >>
    \o SelectSeq(smartEntries(options),
                 LAMBDA entry : ~namesHashHas(template, entry.k) /\ entry.v # Undefined)
\* smartEntries(options).filter(...).concat([['key', apiKey]])
queryEntries(template, apiKey, options) ==
  SelectSeq(smartEntries(options),
            LAMBDA entry : ~namesHashHas(template, entry.k) /\ entry.v # Undefined)
    \o << [k |-> Lit("key"), v |-> Str(apiKey)] >>

\* .map(([key, value]) => `${encodeURIComponent(key)}=${encodeURIComponent(value)}`).join('&')
renderQuery(entries) ==
  join([i \in DOMAIN entries |->
          encodeURIComponent(Str(entries[i].k)) \o << "=" >> \o encodeURIComponent(entries[i].v)],
       << "&" >>)

\* the placeholders on which names.map(...) throws: the option is undefined,
\* or encodeURIComponent throws on it
FailingNames(template, options) ==
  MissingNames(template, options)
    \cup { i \in DOMAIN template.names : encodeThrows(Get(options, template.names[i])) }

\* encodeURIComponent throws on a key or a value of the query parameters
queryThrows(entries) ==
  \E i \in DOMAIN entries : encodeThrows(Str(entries[i].k)) \/ encodeThrows(entries[i].v)

\* the URIError encodeURIComponent throws (the message is the engine's)
URIError == [threw |-> TRUE, message |-> Lit("URI malformed"), url |-> << >>]

\* renderUrl(options) of the template, in the client that holds apiKey: the
\* path is rendered first, placeholder by placeholder, then the query
renderUrl(template, apiKey, options) ==
  IF FailingNames(template, options) # {}
  THEN IF Min(FailingNames(template, options)) \in MissingNames(template, options)
       THEN [threw |-> TRUE,
             message |-> Lit("Parameter ") \o template.names[Min(FailingNames(template, options))]
                           \o Lit(" is required."),
             url |-> << >>]
       ELSE URIError
  ELSE IF queryThrows(queryEntries(template, apiKey, options)) THEN URIError
  ELSE [threw |-> FALSE, message |-> << >>,
        url |-> baseUrl \o template.urlParts[1] \o renderPath(template, options)
                  \o << "?" >> \o renderQuery(queryEntries(template, apiKey, options))]

(***************************************************************************)
(* Response transformers (lib/client.ts lines 41-77).                      *)
(***************************************************************************)
\* a response: its status and what headers.get('Content-Type') returns
\* (null when hasHeader is false)
Response(status, contentType) ==
  [status |-> status, hasHeader |-> contentType.present, header |-> contentType.value]
NoResponse == [status |-> 0, hasHeader |-> FALSE, header |-> << >>]

\* chars.split(sep, 2)[0]: the characters before the first sep
splitFirst(chars, sep) ==
  IF \E i \in DOMAIN chars : chars[i] = sep
  THEN SubSeq(chars, 1, Min({ i \in DOMAIN chars : chars[i] = sep }) - 1)
  ELSE chars

\* (response.headers.get('Content-Type') || '').split(';', 2)[0]
contentTypeOf(response) ==
  splitFirst(IF response.hasHeader THEN response.header ELSE << >>, ";")

\* expectContentType(response, ...expectedTypes)
expectContentTypeAny(response, expectedTypes) == Passed
expectContentType(response, expectedTypes) ==
  IF contentTypeOf(response) \notin expectedTypes
  THEN Throw(Lit("Unexpected response Content-Type: ") \o contentTypeOf(response))
  ELSE Passed

\* the transformers: the content types each expects and the body method it awaits
\* as expectJsonResult, but the body is read with text()
expectJsonResultReadingText == [expectedTypes |-> { Lit("application/json") }, method |-> "text"]
expectJsonResult == [expectedTypes |-> { Lit("application/json") }, method |-> "json"]
expectTextResult == [expectedTypes |-> { Lit("text/html"), Lit("text/plain") }, method |-> "text"]
expectImageResult == [expectedTypes |-> { Lit("image/jpeg") }, method |-> "blob"]

(***************************************************************************)
(* The client's endpoints (lib/client.ts lines 493-554).                   *)
(***************************************************************************)
EndpointNames ==
  { "content", "tableOfContents", "search", "findBible", "find",
    "image", "parse", "scan", "tag", "compare" }

EndpointOf(name) ==
  CASE name = "content" ->
         [validateOptions |-> validateBibleContentOptions,
          template |-> Template2("bible/content/", "bible", ".", "format", ""),
          transformResponse |-> expectTextResult]
    [] name = "tableOfContents" ->
         [validateOptions |-> validateSpecificBibleOptions,
          template |-> Template1("bible/contents/", "bible", ""),
          transformResponse |-> expectJsonResult]
    [] name = "search" ->
         [validateOptions |-> validateSearchOptions,
          template |-> Template1("bible/search/", "bible", ""),
          transformResponse |-> expectJsonResult]
    [] name = "findBible" ->
         [validateOptions |-> validateSpecificBibleOptions,
          template |-> Template1("bible/find/", "bible", ""),
          transformResponse |-> expectJsonResult]
    [] name = "find" ->
         [validateOptions |-> validateFindOptions,
          template |-> Template0("bible/find"),
          transformResponse |-> expectJsonResult]
    [] name = "image" ->
         [validateOptions |-> validateSpecificBibleOptions,
          template |-> Template1("bible/image/", "bible", ""),
          transformResponse |-> expectImageResult]
    [] name = "parse" ->
         [validateOptions |-> validateParseOptions,
          template |-> Template0("bible/parse"),
          transformResponse |-> expectJsonResult]
    [] name = "scan" ->
         [validateOptions |-> validateScanOptions,
          template |-> Template0("bible/scan"),
          transformResponse |-> expectJsonResult]
    [] name = "tag" ->
         [validateOptions |-> validateTagOptions,
          template |-> Template0("bible/tag"),
          transformResponse |-> expectJsonResult]
    [] name = "compare" ->
         [validateOptions |-> validateCompareOptions,
          template |-> Template0("bible/compare"),
          transformResponse |-> expectJsonResult]

\* the object createBibliaApiClient returns, built once
Endpoints == [name \in EndpointNames |-> EndpointOf(name)]
Endpoint(name) == Endpoints[name]

(***************************************************************************)
(* The inputs the environment supplies: options objects, API keys,         *)
(* responses of the injected fetch.                                        *)
(***************************************************************************)
\* the API keys of the clients constructed ('baz' is the tests' key)
ApiKeys == { Lit("baz"), Lit("s3 cr=t") }

\* the options of the tests' renderUrlInputs rows
renderUrlInputs(name) ==
  CASE name = "content" ->
         { Obj(<< P("bible", S("leb")), P("passage", S("Genesis 1:1")), P("format", S("html")),
                  P("style", S("fullyFormatted")), P("formatting", S("abc")),
                  P("redLetter", Bool(TRUE)), P("footnotes", Bool(TRUE)),
                  P("citation", Bool(TRUE)), P("paragraphs", Bool(TRUE)),
                  P("fullText", Bool(TRUE)), P("header", S("header")),
                  P("eachVerse", S("eachVerse")), P("footer", S("footer")) >>) }
    [] name = "tableOfContents" -> { Obj(<< P("bible", S("leb")) >>) }
    [] name = "search" ->
         { Obj(<< P("bible", S("leb")), P("query", S("something")), P("mode", S("fuzzy")),
                  P("passages", S("Genesis 1")), P("preview", S("text")),
                  P("sort", S("passage")), P("start", Num(0)), P("limit", Num(20)) >>) }
    [] name = "findBible" -> { Obj(<< P("bible", S("leb")) >>) }
    [] name = "find" ->
         { Obj(<< P("query", S("hi")), P("strictQuery", Bool(FALSE)),
                  P("start", Num(0)), P("limit", Num(10)) >>) }
    [] name = "image" -> { Obj(<< P("bible", S("leb")) >>) }
    [] name = "parse" -> { Obj(<< P("passage", S("Genesis 1:1")), P("style", S("long")) >>) }
    [] name = "scan" ->
         { Obj(<< P("text", S("A sentence or two.")), P("tagChapters", Bool(TRUE)) >>) }
    [] name = "tag" ->
         { Obj(<< P("text", S("A sentence or two")), P("tagFormat", S("abc")),
                  P("tagChapters", Bool(TRUE)) >>),
           Obj(<< P("url", S("https://example.com/")), P("tagFormat", S("abc")),
                  P("tagChapters", Bool(TRUE)) >>) }
    [] name = "compare" ->
         { Obj(<< P("first", S("Geneis 1:1")), P("second", S("Genesis 1:2")) >>) }

\* the objects the caller starts from: a row of the tests, or {}
BaseOptions(name) == renderUrlInputs(name) \cup { Obj(<< >>) }

\* options[key] = value, as the caller builds the object: an own key keeps its
\* place, a new key goes last
SetProp(options, key, value) ==
  IF HasOwn(options, key)
  THEN Obj([i \in DOMAIN options.entries |->
              IF options.entries[i].k = key THEN [k |-> key, v |-> value]
              ELSE options.entries[i]])
  ELSE Obj(Append(options.entries, [k |-> key, v |-> value]))

\* delete options[key]
DeleteProp(options, key) == Obj(SelectSeq(options.entries, LAMBDA entry : entry.k # key))

\* keys no schema declares; one of them is a name of Object.prototype
UndeclaredKeys == { Lit("foo"), Lit("key"), Lit("constructor") }

\* the keys the caller sets or deletes: the declared ones and the undeclared ones
EditKeys(validators) == SchemaKeys(validators) \cup UndeclaredKeys

\* the values the caller sets: one of each kind, a declared bible in upper
\* case, a string with the query's delimiters, a name of Object.prototype,
\* and a string that ends in a lone surrogate
EditValues ==
  { Undefined, Null, Num(20), Bool(TRUE), S("LEB"), S("x&key=z"), S("constructor"),
    Str(<< "x", LoneSurrogate >>) }

\* one change the caller makes to the object: none, options[k] = v, delete options[k]
Edits(validators) ==
  { [op |-> "none", k |-> << >>, v |-> Undefined] }
    \cup { [op |-> "set", k |-> k, v |-> v] : k \in EditKeys(validators), v \in EditValues }
    \cup { [op |-> "delete", k |-> k, v |-> Undefined] : k \in EditKeys(validators) }

ApplyEdit(options, edit) ==
  CASE edit.op = "set" -> SetProp(options, edit.k, edit.v)
    [] edit.op = "delete" -> DeleteProp(options, edit.k)
    [] OTHER -> options

RECURSIVE ApplyEdits(_, _)
ApplyEdits(options, edits) ==
  IF edits = << >> THEN options
  ELSE ApplyEdits(ApplyEdit(options, Head(edits)), Tail(edits))

\* an options argument that is no object: undefined, null, 0, 5
PrimitiveOptions == { OptUndefined, OptNull, OptNumber(0), OptNumber(5) }

\* the call holds no options (before the call, and once it no longer reads them)
NoOptions == [t |-> "none", n |-> 0, entries |-> << >>]

Statuses == { 200, 201, 404 }

\* what headers.get('Content-Type') may return: null, or a header value
ContentTypeHeaders ==
  { [present |-> FALSE, value |-> << >>] }
    \cup { [present |-> TRUE, value |-> h] :
             h \in { Lit(""), Lit("application/json"), Lit("application/json; charset=utf-8"),
                     Lit("Application/JSON"), Lit(";application/json"), Lit("text/html"),
                     Lit("text/html;a;b"), Lit("text/plain; charset=utf-8"),
                     Lit("image/jpeg"), Lit("image/png") } }

Responses == { Response(st, h) : st \in Statuses, h \in ContentTypeHeaders }

\* what a body method may resolve with
DecodedValues == { "body1", "body2" }

(***************************************************************************)
(* The state: the API keys of the clients constructed, and per call the    *)
(* position of the async function createEndpoint returns (lines 85-96).    *)
(***************************************************************************)
NoOutcome == [kind |-> "none", message |-> << >>, response |-> NoResponse, value |-> ""]
\* the promise rejects with an Error
Rejected(message) == [kind |-> "error", message |-> message, response |-> NoResponse, value |-> ""]
\* the promise rejects with the response: throw response
RejectedWith(response) == [kind |-> "response", message |-> << >>, response |-> response, value |-> ""]
\* the promise rejects with what fetch or the body method rejected with
RejectedBy(who) == [kind |-> who, message |-> << >>, response |-> NoResponse, value |-> ""]
\* the promise resolves with the decoded value
Resolved(value) == [kind |-> "value", message |-> << >>, response |-> NoResponse, value |-> value]

Idle ==
  [pc |-> "idle", apiKey |-> << >>, endpoint |-> "", options |-> NoOptions,
   url |-> << >>, fetches |-> 0, response |-> NoResponse, headerReads |-> 0,
   decoded |-> << >>, outcome |-> NoOutcome]

\* one application of a declared option's validate function to a value
NoProbe ==
  [stage |-> "none", validator |-> createValidator(validateIsString, << >>),
   value |-> Undefined, result |-> Passed]

\* one application of a template's renderUrl to an options object
NoRendering ==
  [stage |-> "none", template |-> Template0("bible/find"), apiKey |-> << >>,
   options |-> NoOptions, result |-> [threw |-> FALSE, message |-> << >>, url |-> << >>]]

Init ==
  /\ clients = { }
  /\ calls = [c \in CallIds |-> Idle]
  /\ probe = NoProbe
  /\ rendering = NoRendering

\* createBibliaApiClient({ apiKey, fetch }): builds the endpoints, no I/O
CreateClient(apiKey) ==
  /\ apiKey \notin clients
  /\ clients' = clients \cup { apiKey }
  /\ UNCHANGED << calls, probe, rendering >>

\* the call's state once validateOptions(options) and renderUrl(options) have
\* run and, if neither threw, fetch has been invoked with the URL
InvokedAlwaysFetches(endpoint, apiKey, name, options) ==
  [Idle EXCEPT !.pc = "awaitFetch", !.apiKey = apiKey, !.endpoint = name,
               !.options = options, !.fetches = 1,
               !.url = renderUrl(endpoint.template, apiKey, options).url]
\* as Invoked, but the URL is rendered from a copy of the options whose
\* string values are in lower case
InvokedNormalising(endpoint, apiKey, name, options) ==
  LET started == [Idle EXCEPT !.apiKey = apiKey, !.endpoint = name, !.options = options]
      checked == validate(endpoint.validateOptions, options)
      normalised ==
        IF options.t = "object"
        THEN [options EXCEPT !.entries =
                [i \in DOMAIN options.entries |->
                   IF options.entries[i].v.t = "string" /\ ~encodeThrows(options.entries[i].v)
                   THEN [options.entries[i] EXCEPT !.v.s = toLowerCase(@)]
                   ELSE options.entries[i]]]
        ELSE options
      rendered == renderUrl(endpoint.template, apiKey, normalised)
  IN  IF checked.threw
      THEN [started EXCEPT !.pc = "rejected", !.outcome = Rejected(checked.message)]
      ELSE IF rendered.threw
      THEN [started EXCEPT !.pc = "rejected", !.outcome = Rejected(rendered.message)]
      ELSE [started EXCEPT !.pc = "awaitFetch", !.url = rendered.url, !.fetches = 1]
Invoked(endpoint, apiKey, name, options) ==
  LET started == [Idle EXCEPT !.apiKey = apiKey, !.endpoint = name, !.options = options]
      checked == validate(endpoint.validateOptions, options)
      rendered == renderUrl(endpoint.template, apiKey, options)
  IN  IF checked.threw
      THEN [started EXCEPT !.pc = "rejected", !.outcome = Rejected(checked.message)]
      ELSE IF rendered.threw
      THEN [started EXCEPT !.pc = "rejected", !.outcome = Rejected(rendered.message)]
      ELSE [started EXCEPT !.pc = "awaitFetch", !.url = rendered.url, !.fetches = 1]

\* client[name](options), up to its first await; endpoint is client[name]
Invoke(c, endpoint, apiKey, name, options) ==
  /\ calls[c].pc = "idle"
  /\ apiKey \in clients
  /\ calls' = [calls EXCEPT ![c] = Invoked(endpoint, apiKey, name, options)]
  /\ UNCHANGED << clients, probe, rendering >>

\* the call's state once the fetch promise has resolved with response: the
\* status check and transformResponse up to its await.  The continuation reads
\* neither options nor the URL again, so the record lets go of them.
ContinuedIgnoringStatus(transform, call, response) ==
  LET next == [call EXCEPT !.response = response, !.options = NoOptions, !.url = << >>]
  IN  [next EXCEPT !.pc = "awaitDecode", !.headerReads = 1,
                   !.decoded = << transform.method >>]
\* as Continued, but the body is also read as text before it is decoded
ContinuedReadingTextFirst(transform, call, response) ==
  LET next == [call EXCEPT !.response = response, !.options = NoOptions, !.url = << >>]
      expected == expectContentType(response, transform.expectedTypes)
  IN  IF response.status # 200
      THEN [next EXCEPT !.pc = "rejected", !.outcome = RejectedWith(response)]
      ELSE IF expected.threw
      THEN [next EXCEPT !.pc = "rejected", !.headerReads = 1,
                        !.outcome = Rejected(expected.message)]
      ELSE [next EXCEPT !.pc = "awaitDecode", !.headerReads = 1,
                        !.decoded = << "text", transform.method >>]
\* as Continued, but a response whose status is not 200 is fetched once more
ContinuedRetrying(transform, call, response) ==
  LET next == [call EXCEPT !.response = response, !.options = NoOptions, !.url = << >>]
      expected == expectContentType(response, transform.expectedTypes)
  IN  IF response.status # 200 /\ call.fetches < 2
      THEN [call EXCEPT !.fetches = 2]
      ELSE IF response.status # 200
      THEN [next EXCEPT !.pc = "rejected", !.outcome = RejectedWith(response)]
      ELSE IF expected.threw
      THEN [next EXCEPT !.pc = "rejected", !.headerReads = 1,
                        !.outcome = Rejected(expected.message)]
      ELSE [next EXCEPT !.pc = "awaitDecode", !.headerReads = 1,
                        !.decoded = << transform.method >>]
Continued(transform, call, response) ==
  LET next == [call EXCEPT !.response = response, !.options = NoOptions, !.url = << >>]
      expected == expectContentType(response, transform.expectedTypes)
  IN  IF response.status # 200
      THEN [next EXCEPT !.pc = "rejected", !.outcome = RejectedWith(response)]
      ELSE IF expected.threw
      THEN [next EXCEPT !.pc = "rejected", !.headerReads = 1,
                        !.outcome = Rejected(expected.message)]
      ELSE [next EXCEPT !.pc = "awaitDecode", !.headerReads = 1,
                        !.decoded = << transform.method >>]

\* as FetchResolves, but the response is kept where every call awaiting its
\* fetch reads it
FetchResolvesShared(c, transform, response) ==
  /\ calls[c].pc = "awaitFetch"
  /\ calls' = [d \in DOMAIN calls |->
                IF calls[d].pc = "awaitFetch"
                THEN Continued(Endpoint(calls[d].endpoint).transformResponse, calls[d], response)
                ELSE calls[d]]
  /\ UNCHANGED << clients, probe, rendering >>
\* await fetch(...) resolves; transform is the endpoint's transformResponse
FetchResolves(c, transform, response) ==
  /\ calls[c].pc = "awaitFetch"
  /\ calls' = [calls EXCEPT ![c] = Continued(transform, calls[c], response)]
  /\ UNCHANGED << clients, probe, rendering >>

\* await fetch(...) rejects: the call rejects with fetch's error
FetchRejects(c) ==
  /\ calls[c].pc = "awaitFetch"
  /\ calls' = [calls EXCEPT ![c] = [calls[c] EXCEPT !.pc = "rejected", !.options = NoOptions,
                                      !.url = << >>, !.outcome = RejectedBy("fetchError")]]
  /\ UNCHANGED << clients, probe, rendering >>

\* await response.json() / text() / blob() resolves: the call returns the value
DecodeResolves(c, value) ==
  /\ calls[c].pc = "awaitDecode"
  /\ calls' = [calls EXCEPT ![c] = [calls[c] EXCEPT !.pc = "resolved", !.outcome = Resolved(value)]]
  /\ UNCHANGED << clients, probe, rendering >>

\* the body method rejects (e.g. malformed JSON): the call rejects with it
DecodeRejects(c) ==
  /\ calls[c].pc = "awaitDecode"
  /\ calls' = [calls EXCEPT ![c] = [calls[c] EXCEPT !.pc = "rejected",
                                      !.outcome = RejectedBy("decodeError")]]
  /\ UNCHANGED << clients, probe, rendering >>

\* the caller has taken the settled promise's outcome
Settle(c) ==
  /\ calls[c].pc \in { "resolved", "rejected" }
  /\ calls' = [calls EXCEPT ![c] = Idle]
  /\ UNCHANGED << clients, probe, rendering >>

\* endpoints is the object createBibliaApiClient returns: the same ten
\* functions for every client, closed over the client's apiKey
Next ==
  \E endpoints \in { Endpoints } :
    \/ \E apiKey \in ApiKeys : CreateClient(apiKey)
    \/ \E c \in { d \in DOMAIN calls : calls[d].pc = "idle" }, apiKey \in clients,
            name \in EndpointNames :
         \/ \E options \in PrimitiveOptions :
              Invoke(c, endpoints[name], apiKey, name, options)
         \/ \E base \in BaseOptions(name),
                edits \in [1..MaxEdits -> Edits(endpoints[name].validateOptions)] :
              Invoke(c, endpoints[name], apiKey, name, ApplyEdits(base, edits))
    \/ \E c \in { d \in DOMAIN calls : calls[d].pc = "awaitFetch" }, response \in Responses :
         FetchResolves(c, endpoints[calls[c].endpoint].transformResponse, response)
    \/ \E c \in DOMAIN calls : FetchRejects(c)
    \/ \E c \in DOMAIN calls, value \in DecodedValues : DecodeResolves(c, value)
    \/ \E c \in DOMAIN calls : DecodeRejects(c)
    \/ \E c \in DOMAIN calls : Settle(c)

Spec == Init /\ [][Next]_vars

(***************************************************************************)
(* The validate functions on their own: every enum rule the schemas        *)
(* declare, applied to letter-case variants of its declared values and to  *)
(* values outside them.                                                    *)
(***************************************************************************)
AllSchemas ==
  { validateBibleContentOptions, validateSearchOptions, validateSpecificBibleOptions,
    validateFindOptions, validateParseOptions, validateScanOptions,
    validateTagOptions, validateCompareOptions }

EnumValidators ==
  { v \in UNION { Range(schema) : schema \in AllSchemas } : v.rule.kind = "enum" }

RECURSIVE Pow2(_)
Pow2(k) == IF k = 0 THEN 1 ELSE 2 * Pow2(k - 1)

toggleCase(c) == IF c \in Range(UpperCaseLetters) THEN toLowerCaseChar(c) ELSE toUpperCaseChar(c)

\* chars with the letter case flipped where the mask, repeated, has a 1
CaseVariant(chars, mask) ==
  [i \in DOMAIN chars |->
     IF (mask \div Pow2((i - 1) % MaskBits)) % 2 = 1 THEN toggleCase(chars[i]) ELSE chars[i]]

ProbeValues(validator) ==
  { Str(CaseVariant(d, mask)) : d \in Range(validator.rule.values), mask \in 0..(Pow2(MaskBits) - 1) }
    \cup { Str(d \o << "x" >>) : d \in Range(validator.rule.values) }
    \cup { Undefined, Null, SomeObject, Num(20), Bool(TRUE), S(""), S("xyz"),
           S("constructor"), S("Constructor"), S("toString"), S("__proto__") }

InitEnum ==
  /\ clients = { }
  /\ calls = [c \in CallIds |-> Idle]
  /\ rendering = NoRendering
  /\ \E validator \in EnumValidators : \E value \in ProbeValues(validator) :
       probe = [stage |-> "input", validator |-> validator, value |-> value, result |-> Passed]

\* validate(value)
ApplyValidator ==
  /\ probe.stage = "input"
  /\ probe' = [probe EXCEPT !.stage = "validated",
                            !.result = ruleValidate(probe.validator, probe.value)]
  /\ UNCHANGED << clients, calls, rendering >>

NextEnum == ApplyValidator

SpecEnum == InitEnum /\ [][NextEnum]_vars

(***************************************************************************)
(* renderUrl on its own: the template of every endpoint, applied to        *)
(* options objects that validation has not filtered.                       *)
(***************************************************************************)
\* how many properties the options object of a rendering has
MaxEntries == 2

\* the keys of those objects: the two placeholder names, a declared query
\* option, and a key made of delimiters
RenderKeys == { Lit("bible"), Lit("format"), Lit("passage"), Lit("a b&c=d") }

\* their values: undefined, null, a plain string, one string of the characters
\* encodeURIComponent leaves alone, one of those it encodes, and a string
\* that ends in a lone surrogate
RenderValues ==
  { Undefined, Null, S("leb"), S("aZ09-_.~!'()*"), S(": ?#[]@$&+,;=/%"),
    Str(<< "x", LoneSurrogate >>) }

RenderApiKeys == { Lit("baz"), Lit("k y/1") }

\* the objects of n properties with distinct keys, in every order
RECURSIVE RenderOptionEntries(_)
RenderOptionEntries(n) ==
  IF n = 0 THEN { << >> }
  ELSE LET shorter == RenderOptionEntries(n - 1)
       IN  shorter
             \cup { Append(entries, [k |-> k, v |-> v]) :
                      entries \in { e \in shorter : Len(e) = n - 1 },
                      k \in RenderKeys, v \in RenderValues }

HasDistinctKeys(entries) ==
  \A i, j \in DOMAIN entries : entries[i].k = entries[j].k => i = j

RenderOptions ==
  { Obj(entries) : entries \in { e \in RenderOptionEntries(MaxEntries) : HasDistinctKeys(e) } }

InitRender ==
  /\ clients = { }
  /\ calls = [c \in CallIds |-> Idle]
  /\ probe = NoProbe
  /\ \E name \in EndpointNames, apiKey \in RenderApiKeys, options \in RenderOptions :
       rendering = [NoRendering EXCEPT !.stage = "input", !.template = Endpoints[name].template,
                                       !.apiKey = apiKey, !.options = options]

\* renderUrl(options)
ApplyRenderUrl ==
  /\ rendering.stage = "input"
  /\ rendering' = [rendering EXCEPT
                     !.stage = "rendered",
                     !.result = renderUrl(rendering.template, rendering.apiKey, rendering.options)]
  /\ UNCHANGED << clients, calls, probe >>

NextRender == ApplyRenderUrl

SpecRender == InitRender /\ [][NextRender]_vars

(***************************************************************************)
(* Several calls in flight at once, on clients with different API keys:    *)
(* the caller does not await one call before it makes the next.            *)
(***************************************************************************)
\* how many calls are in flight at once
MaxConcurrent == 2

ConcurrentNames == { "content", "find" }

ConcurrentResponses ==
  { Response(200, [present |-> TRUE, value |-> Lit("application/json")]),
    Response(200, [present |-> TRUE, value |-> Lit("text/html")]),
    Response(404, [present |-> FALSE, value |-> << >>]) }

InitConcurrent ==
  /\ clients = { }
  /\ calls = [c \in 1..MaxConcurrent |-> Idle]
  /\ probe = NoProbe
  /\ rendering = NoRendering

NextConcurrent ==
  \E endpoints \in { Endpoints } :
    \/ \E apiKey \in ApiKeys : CreateClient(apiKey)
    \/ \E c \in { d \in DOMAIN calls : calls[d].pc = "idle" }, apiKey \in clients,
            name \in ConcurrentNames :
         \E options \in BaseOptions(name) : Invoke(c, endpoints[name], apiKey, name, options)
    \/ \E c \in { d \in DOMAIN calls : calls[d].pc = "awaitFetch" },
            response \in ConcurrentResponses :
         FetchResolves(c, endpoints[calls[c].endpoint].transformResponse, response)
    \/ \E c \in DOMAIN calls : FetchRejects(c)
    \/ \E c \in DOMAIN calls, value \in DecodedValues : DecodeResolves(c, value)
    \/ \E c \in DOMAIN calls : DecodeRejects(c)
    \/ \E c \in DOMAIN calls : Settle(c)

SpecConcurrent == InitConcurrent /\ [][NextConcurrent]_vars

(***************************************************************************)
(* Properties.                                                             *)
(***************************************************************************)
\* the calls that still hold the options they were invoked with: those
\* rejected before the fetch and those awaiting it
HoldsOptions(c) == calls[c].pc # "idle" /\ calls[c].options # NoOptions
\* the calls whose fetch has resolved with a response
HasResponse(c) == calls[c].response # NoResponse

ValidationOf(c) == validate(Endpoint(calls[c].endpoint).validateOptions, calls[c].options)

\* chars occurs in text as a run of consecutive characters
Contains(text, chars) ==
  \E i \in 1..(Len(text) - Len(chars) + 1) : SubSeq(text, i, i + Len(chars) - 1) = chars

\* C1: whenever the options of a call fail validation, the call is rejected
\* with that validation error and the injected fetch was not invoked in it.
C1_ValidationPrecedesFetch ==
  \A c \in CallIds :
    (HoldsOptions(c) /\ ValidationOf(c).threw) =>
      /\ calls[c].pc = "rejected"
      /\ calls[c].outcome = Rejected(ValidationOf(c).message)
      /\ calls[c].fetches = 0

\* C1 witness: a call with an unsupported key was rejected without a fetch.
C1_Witness ==
  \E c \in CallIds :
    /\ HoldsOptions(c) /\ ValidationOf(c).threw
    /\ calls[c].pc = "rejected" /\ calls[c].fetches = 0
    /\ calls[c].options.t = "object" /\ calls[c].options.entries # << >>

\* C2: a response whose status is not 200 rejects the call with the response
\* itself; Content-Type was not read, no body method was called and nothing
\* was decoded, whatever the Content-Type.
C2_Non200RejectsWithResponse ==
  \A c \in CallIds :
    (HasResponse(c) /\ calls[c].response.status # 200) =>
      /\ calls[c].pc = "rejected"
      /\ calls[c].outcome = RejectedWith(calls[c].response)
      /\ calls[c].headerReads = 0
      /\ calls[c].decoded = << >>

\* C2 witness: a 404 that declares application/json on a JSON endpoint.
C2_Witness ==
  \E c \in CallIds :
    /\ HasResponse(c) /\ calls[c].response.status = 404
    /\ calls[c].response.hasHeader /\ calls[c].response.header = Lit("application/json")
    /\ calls[c].endpoint = "search" /\ calls[c].pc = "rejected"

\* the content types the claim says each endpoint accepts
AcceptedContentTypes(name) ==
  CASE name = "content" -> { Lit("text/html"), Lit("text/plain") }
    [] name = "image" -> { Lit("image/jpeg") }
    [] OTHER -> { Lit("application/json") }

\* the header value up to its first ';', the empty string for a missing header
UpToFirstSemicolon(response) ==
  LET h == IF response.hasHeader THEN response.header ELSE << >>
  IN  CHOOSE prefix \in { SubSeq(h, 1, k) : k \in 0..Len(h) } :
        /\ \A i \in DOMAIN prefix : prefix[i] # ";"
        /\ (Len(prefix) < Len(h) => h[Len(prefix) + 1] = ";")

\* C4: on a 200 response whose content type (the header up to the first ';',
\* empty when missing) is outside the endpoint's accepted set, the call is
\* rejected with an Error whose message contains that content type, and no
\* body method was called.
C4_UnexpectedContentTypeRejects ==
  \A c \in CallIds :
    (/\ HasResponse(c) /\ calls[c].response.status = 200
     /\ UpToFirstSemicolon(calls[c].response) \notin AcceptedContentTypes(calls[c].endpoint)) =>
      /\ calls[c].pc = "rejected"
      /\ calls[c].outcome.kind = "error"
      /\ Contains(calls[c].outcome.message, UpToFirstSemicolon(calls[c].response))
      /\ Contains(calls[c].outcome.message, Lit("Unexpected response Content-Type: "))
      /\ calls[c].decoded = << >>

\* C4 witness: image/jpeg answered to a JSON endpoint.
C4_Witness ==
  \E c \in CallIds :
    /\ HasResponse(c) /\ calls[c].response.status = 200
    /\ calls[c].response.header = Lit("image/jpeg") /\ calls[c].endpoint = "search"
    /\ calls[c].pc = "rejected"
    /\ calls[c].outcome.message = Lit("Unexpected response Content-Type: image/jpeg")

SchemaOf(c) == Endpoint(calls[c].endpoint).validateOptions

\* the own keys of the call's options object that its schema does not declare
UndeclaredKeysOf(c) ==
  { k \in Range(ForInKeys(calls[c].options)) : k \notin SchemaKeys(SchemaOf(c)) }

\* C3: an options object with a key its endpoint's schema does not declare is
\* rejected with "Option <name> is not supported." naming such a key, whatever
\* the key's name and whatever the other fields hold.
C3_UndeclaredKeyRejected ==
  \A c \in CallIds :
    (HoldsOptions(c) /\ calls[c].options.t = "object" /\ UndeclaredKeysOf(c) # { }) =>
      /\ calls[c].pc = "rejected"
      /\ \E k \in UndeclaredKeysOf(c) :
           calls[c].outcome = Rejected(Lit("Option ") \o k \o Lit(" is not supported."))

\* the path placeholders the claims give each endpoint
Placeholders(name) ==
  CASE name = "content" -> { Lit("bible"), Lit("format") }
    [] name \in { "tableOfContents", "search", "findBible", "image" } -> { Lit("bible") }
    [] OTHER -> { }

\* the part of a URL before its first '?', and the part after it
FirstQuestionMark(url) == Min({ i \in DOMAIN url : url[i] = "?" })
BeforeQuery(url) == SubSeq(url, 1, FirstQuestionMark(url) - 1)
QueryOf(url) == SubSeq(url, FirstQuestionMark(url) + 1, Len(url))

\* the query string C5 describes: a pair per own option that is no path
\* placeholder and is not undefined, in the object's order, then key=<apiKey>
ClaimedQuery(c) ==
  LET kept == SelectSeq(calls[c].options.entries,
                        LAMBDA entry : entry.k \notin Placeholders(calls[c].endpoint)
                                         /\ entry.v # Undefined)
      \* no URL holds a value on which encodeURIComponent throws
      enc(value) == IF encodeThrows(value) THEN << LoneSurrogate >> ELSE encodeURIComponent(value)
      pairs == [i \in DOMAIN kept |-> enc(Str(kept[i].k)) \o << "=" >> \o enc(kept[i].v)]
  IN  join(pairs \o << Lit("key=") \o encodeURIComponent(Str(calls[c].apiKey)) >>, << "&" >>)

\* C5: the query string of every rendered URL is one name=value pair per
\* option that is neither a path placeholder nor undefined, in the options'
\* iteration order, followed by key=<apiKey>.
C5_QueryHasEveryOption ==
  \A c \in CallIds :
    calls[c].pc = "awaitFetch" =>
      /\ \E i \in DOMAIN calls[c].url : calls[c].url[i] = "?"
      /\ QueryOf(calls[c].url) = ClaimedQuery(c)

\* the path the claims give each endpoint, its placeholders percent-encoded
ClaimedPath(name, options) ==
  LET enc(key) == encodeURIComponent(Get(options, Lit(key)))
  IN  CASE name = "content" -> Lit("bible/content/") \o enc("bible") \o Lit(".") \o enc("format")
        [] name = "tableOfContents" -> Lit("bible/contents/") \o enc("bible")
        [] name = "search" -> Lit("bible/search/") \o enc("bible")
        [] name = "findBible" -> Lit("bible/find/") \o enc("bible")
        [] name = "find" -> Lit("bible/find")
        [] name = "image" -> Lit("bible/image/") \o enc("bible")
        [] name = "parse" -> Lit("bible/parse")
        [] name = "scan" -> Lit("bible/scan")
        [] name = "tag" -> Lit("bible/tag")
        [] name = "compare" -> Lit("bible/compare")

\* C6: the URL a call passes to fetch is https://api.biblia.com/v1/, then the
\* endpoint's path with each placeholder replaced by the percent-encoded
\* option, then '?' and the query string.
C6_UrlIsBasePathQuery ==
  \A c \in CallIds :
    calls[c].pc = "awaitFetch" =>
      /\ calls[c].fetches = 1
      /\ \E i \in DOMAIN calls[c].url : calls[c].url[i] = "?"
      /\ BeforeQuery(calls[c].url) =
           Lit("https://api.biblia.com/v1/") \o ClaimedPath(calls[c].endpoint, calls[c].options)

\* C6 witness: the content row of the tests, with the URL the test expects.
C6_Witness ==
  \E c \in CallIds :
    /\ calls[c].pc = "awaitFetch" /\ calls[c].endpoint = "content"
    /\ calls[c].options \in renderUrlInputs("content")
    /\ calls[c].url = Lit("https://api.biblia.com/v1/bible/content/leb.html?passage=Genesis%201%3A1&style=fullyFormatted&formatting=abc&redLetter=true&footnotes=true&citation=true&paragraphs=true&fullText=true&header=header&eachVerse=eachVerse&footer=footer&key=baz")

\* the value the options object holds for key: undefined when it has no such key
OwnValue(options, key) ==
  IF HasOwn(options, key)
  THEN options.entries[CHOOSE i \in DOMAIN options.entries : options.entries[i].k = key].v
  ELSE Undefined

TypedKinds == { "string", "boolean", "number" }

\* the declared string/boolean/number field is as C7 requires: a required one
\* holds a value of its kind, an optional one that or undefined
TypedFieldOk(validator, options) ==
  LET v == OwnValue(options, validator.key)
  IN  \/ v.t = validator.rule.kind
      \/ validator.rule.optional /\ v = Undefined

TypedFieldsFailing(c) ==
  { i \in DOMAIN SchemaOf(c) :
      SchemaOf(c)[i].rule.kind \in TypedKinds /\ ~TypedFieldOk(SchemaOf(c)[i], calls[c].options) }

\* every enum field of the call's options passes its rule
EnumFieldsPass(c) ==
  \A i \in DOMAIN SchemaOf(c) :
    SchemaOf(c)[i].rule.kind = "enum" =>
      ~ruleValidate(SchemaOf(c)[i], OwnValue(calls[c].options, SchemaOf(c)[i].key)).threw

AllKeysDeclared(c) == calls[c].options.t = "object" /\ UndeclaredKeysOf(c) = { }

KindName(kind) ==
  CASE kind = "string" -> Lit("string") [] kind = "boolean" -> Lit("boolean")
    [] kind = "number" -> Lit("number")

\* C7: for options whose keys are all declared, a required typed field that is
\* missing or of the wrong kind (null included), or an optional one of the
\* wrong kind, rejects the call before any fetch, with the error naming the
\* first such option when the enum fields are valid; when every typed field
\* and enum field is as declared, a URL is rendered and passed to fetch.
C7_TypedFieldsDecideValidation ==
  \A c \in CallIds :
    (HoldsOptions(c) /\ AllKeysDeclared(c)) =>
      /\ TypedFieldsFailing(c) # { } =>
           /\ calls[c].pc = "rejected" /\ calls[c].fetches = 0
           /\ calls[c].outcome.kind = "error"
      /\ (TypedFieldsFailing(c) # { } /\ EnumFieldsPass(c)) =>
           LET v == SchemaOf(c)[Min(TypedFieldsFailing(c))]
           IN  calls[c].outcome.message =
                 Lit("Option ") \o v.key \o Lit(" must be a ") \o KindName(v.rule.kind) \o Lit(".")
      /\ (TypedFieldsFailing(c) = { } /\ EnumFieldsPass(c)) =>
           /\ calls[c].pc = "awaitFetch" /\ calls[c].fetches = 1
           /\ calls[c].url # << >>
      /\ calls[c].pc = "awaitFetch" => TypedFieldsFailing(c) = { }

\* the same letter, in either case, or the same character
SameLetter(a, b) ==
  a = b \/ \E j \in DOMAIN UpperCaseLetters : { a, b } = { UpperCaseLetters[j], LowerCaseLetters[j] }

DiffersOnlyInCase(chars, declared) ==
  Len(chars) = Len(declared) /\ \A i \in DOMAIN chars : SameLetter(chars[i], declared[i])

\* C8: an enum rule accepts every string that differs from one of its declared
\* values only in letter case.
C8_EnumIgnoresCase ==
  (/\ probe.stage = "validated" /\ probe.value.t = "string"
   /\ \E d \in Range(probe.validator.rule.values) : DiffersOnlyInCase(probe.value.s, d)) =>
    ~probe.result.threw

\* C8 witness: a value that is none of the declared spellings (the declared
\* style fullyFormatted with its case flipped) has been accepted.
C8_Witness ==
  /\ probe.stage = "validated" /\ ~probe.result.threw
  /\ probe.value.t = "string" /\ probe.value.s \notin Range(probe.validator.rule.values)
  /\ DiffersOnlyInCase(probe.value.s, Lit("fullyFormatted"))
  /\ Lit("fullyFormatted") \in Range(probe.validator.rule.values)

\* C9: an enum rule accepts a value only if it is a string whose lowercased
\* form is the lowercased form of a declared value; every other value fails
\* with "Option <name> must be one of <values>.", the values in declared
\* order joined by ', '.  (An optional rule's acceptance of undefined is the
\* optional wrapper's, not the enum rule's.)
C9_EnumAcceptsOnlyMembers ==
  (/\ probe.stage = "validated"
   /\ ~(probe.validator.rule.optional /\ probe.value = Undefined)
   /\ ~(/\ probe.value.t = "string"
        /\ \E d \in Range(probe.validator.rule.values) :
             toLowerCase(probe.value.s) = toLowerCase(d))) =>
    probe.result =
      Throw(Lit("Option ") \o probe.validator.key \o Lit(" must be one of ")
              \o join(probe.validator.rule.values, Lit(", ")) \o Lit("."))

\* C10: validate reports one error by priority: absent options first
\* ("Options is required."), then a key the schema does not declare, then the
\* failing rule declared first.
C10_ErrorPriority ==
  \A c \in CallIds :
    HoldsOptions(c) =>
      /\ calls[c].options.t \in { "undefined", "null" } =>
           calls[c].outcome = Rejected(Lit("Options is required."))
      /\ (calls[c].options.t = "object" /\ UndeclaredKeysOf(c) # { }) =>
           \E k \in UndeclaredKeysOf(c) :
             calls[c].outcome = Rejected(Lit("Option ") \o k \o Lit(" is not supported."))
      /\ (/\ calls[c].options.t = "object" /\ UndeclaredKeysOf(c) = { }
          /\ FailingRules(SchemaOf(c), calls[c].options) # { }) =>
           calls[c].outcome =
             Rejected(SchemaOf(c)[Min(FailingRules(SchemaOf(c), calls[c].options))].errorMessage)

\* C11: in every call at most one body method (json, text, blob) has been
\* called, at most once; one has been called exactly when the call received
\* a response of status 200 whose content type its endpoint accepts.
C11_AtMostOneBodyMethod ==
  \A c \in CallIds :
    /\ Len(calls[c].decoded) <= 1
    /\ \A i \in DOMAIN calls[c].decoded : calls[c].decoded[i] \in { "json", "text", "blob" }
    /\ Len(calls[c].decoded) = 1 <=>
         /\ HasResponse(c) /\ calls[c].response.status = 200
         /\ UpToFirstSemicolon(calls[c].response) \in AcceptedContentTypes(calls[c].endpoint)

\* C11 witness: content received 200 text/plain; charset=utf-8 and text() was
\* called, once.
C11_Witness ==
  \E c \in CallIds :
    /\ calls[c].endpoint = "content" /\ HasResponse(c) /\ calls[c].response.status = 200
    /\ calls[c].response.header = Lit("text/plain; charset=utf-8")
    /\ calls[c].decoded = << "text" >>

\* the body method the README gives each content type
MethodByContentType(contentType) ==
  CASE contentType = Lit("application/json") -> "json"
    [] contentType \in { Lit("text/plain"), Lit("text/html") } -> "text"
    [] OTHER -> "blob"

\* the body method of each endpoint
MethodByEndpoint(name) ==
  CASE name = "content" -> "text" [] name = "image" -> "blob" [] OTHER -> "json"

ClaimedEncoded == Range(Lit(": ?#[]@!$&'()*+,;=/%"))
ClaimedUnchanged ==
  Range(UpperCaseLetters) \cup Range(LowerCaseLetters) \cup Range(Digits) \cup { "-", "_", ".", "~" }

\* %XX, XX the character's code in upper-case hexadecimal
PercentEncoded(c) ==
  << "%", HexDigits[(charCode(c) \div 16) + 1], HexDigits[(charCode(c) % 16) + 1] >>

\* the URL of a rendering when the characters in `encoded` are emitted
\* percent-encoded and every other character unchanged
UrlEncoding(r, encoded) ==
  LET enc(value) ==
        LET chars == StringOf(value)
        IN  Flatten([i \in DOMAIN chars |->
                       IF chars[i] \in encoded THEN PercentEncoded(chars[i]) ELSE << chars[i] >>])
      names == r.template.names
      kept == SelectSeq(r.options.entries,
                        LAMBDA entry : entry.k \notin Range(names) /\ entry.v # Undefined)
                \o << [k |-> Lit("key"), v |-> Str(r.apiKey)] >>
  IN  Lit("https://api.biblia.com/v1/") \o r.template.urlParts[1]
        \o Flatten([i \in DOMAIN names |-> enc(Get(r.options, names[i])) \o r.template.urlParts[i + 1]])
        \o << "?" >>
        \o join([i \in DOMAIN kept |-> enc(Str(kept[i].k)) \o << "=" >> \o enc(kept[i].v)], << "&" >>)

\* the rendering returned a URL
Rendered == rendering.stage = "rendered" /\ ~rendering.result.threw

\* C13 as stated: in a rendered URL each of : ? # [ ] @ ! $ & ' ( ) * + , ; = / %
\* and the space, in a key, a value or the API key, is percent-encoded, and
\* letters, digits and - _ . ~ are unchanged.
C13_ReservedAreEncoded ==
  Rendered => rendering.result.url = UrlEncoding(rendering, ClaimedEncoded)

\* C13 amended: each of : ? # [ ] @ $ & + , ; = / % and the space is
\* percent-encoded; letters, digits, - _ . ~ and also ! ' ( ) * are unchanged.
C13_ReservedButMarksAreEncoded ==
  Rendered => rendering.result.url = UrlEncoding(rendering, ClaimedEncoded \ { "!", "'", "(", ")", "*" })

\* C13 witness: bible/find rendered with a value of the encoded characters
\* under a key with delimiters, and a value of the unchanged ones.
C13_Witness ==
  /\ Rendered
  /\ rendering.options = Obj(<< P("a b&c=d", S(": ?#[]@$&+,;=/%")), P("passage", S("aZ09-_.~!'()*")) >>)
  /\ rendering.result.url =
       Lit("https://api.biblia.com/v1/bible/find?a%20b%26c%3Dd=%3A%20%3F%23%5B%5D%40%24%26%2B%2C%3B%3D%2F%25&passage=aZ09-_.~!'()*&key=k%20y%2F1")

\* what a call that holds a response may have come to, given that response
\* and nothing else
OutcomeFollowsResponse(call) ==
  LET contentType == UpToFirstSemicolon(call.response)
  IN  IF call.response.status # 200 THEN call.outcome = RejectedWith(call.response)
      ELSE IF contentType \notin AcceptedContentTypes(call.endpoint)
      THEN call.outcome = Rejected(Lit("Unexpected response Content-Type: ") \o contentType)
      ELSE \/ call.pc = "awaitDecode" /\ call.outcome = NoOutcome
           \/ call.pc = "resolved" /\ \E value \in DecodedValues : call.outcome = Resolved(value)
           \/ call.pc = "rejected" /\ call.outcome = RejectedBy("decodeError")

\* C14: with several calls in flight, a step of one call leaves every other
\* call as it was; the URL the call passes to fetch is the one rendered from
\* its own options and its own client's API key, and what it comes to follows
\* from the response it received itself.
C14_CallsAreIndependent ==
  [][\A c \in DOMAIN calls :
       calls'[c] # calls[c] =>
         /\ \A d \in DOMAIN calls \ { c } : calls'[d] = calls[d]
         /\ calls'[c].pc = "awaitFetch" =>
              /\ calls'[c].apiKey \in clients
              /\ calls'[c].url =
                   renderUrl(Endpoint(calls'[c].endpoint).template, calls'[c].apiKey,
                             calls'[c].options).url
         /\ calls'[c].response # NoResponse => OutcomeFollowsResponse(calls'[c])]_vars

\* C14 witness: two calls were awaiting their fetches on clients with
\* different API keys; the second received a 404 and is rejected with it,
\* the first still awaits its fetch with its own URL.
C14_Witness ==
  /\ calls[1].pc = "awaitFetch" /\ calls[1].endpoint = "find" /\ calls[1].apiKey = Lit("baz")
  /\ calls[1].url = Lit("https://api.biblia.com/v1/bible/find?query=hi&strictQuery=false&start=0&limit=10&key=baz")
  /\ calls[2].pc = "rejected" /\ calls[2].endpoint = "content"
  /\ calls[2].apiKey = Lit("s3 cr=t") /\ calls[2].response.status = 404

ValidatedAndRendered(call) ==
  /\ ~validate(Endpoint(call.endpoint).validateOptions, call.options).threw
  /\ ~renderUrl(Endpoint(call.endpoint).template, call.apiKey, call.options).threw

\* C16: constructing a client invokes fetch zero times; an endpoint call
\* invokes fetch once if its validation and URL rendering succeeded and not
\* at all otherwise; and whatever comes of the fetch (a status other than
\* 200, an unexpected content type, a rejected fetch, a decoded body), the
\* call's number of fetch invocations stays what it was: no second fetch.
C16_OneFetchPerRenderedCall ==
  [][/\ clients' # clients => calls' = calls
     /\ \A c \in DOMAIN calls :
          /\ calls'[c].fetches \in { 0, 1 }
          /\ calls[c].pc = "idle" /\ calls'[c].pc # "idle" =>
               calls'[c].fetches = IF ValidatedAndRendered(calls'[c]) THEN 1 ELSE 0
          /\ calls[c].pc # "idle" /\ calls'[c].pc # "idle" =>
               calls'[c].fetches = calls[c].fetches]_vars

\* C16 witness: the call's fetch was rejected; the call is rejected with
\* fetch's error after one fetch invocation.
C16_Witness ==
  \E c \in DOMAIN calls :
    /\ calls[c].pc = "rejected" /\ calls[c].outcome = RejectedBy("fetchError")
    /\ calls[c].fetches = 1

\* the declared own options of the call that hold a string
DeclaredStrings(c) ==
  { i \in DOMAIN calls[c].options.entries :
      /\ calls[c].options.entries[i].k \in SchemaKeys(SchemaOf(c))
      /\ calls[c].options.entries[i].v.t = "string" }

\* C17: validation hands on no changed options: the URL a call passes to
\* fetch is the rendering of the options object as the caller gave it, and
\* every declared string option, a bible given as 'LEB' included, is in the
\* URL in the caller's spelling (percent-encoded), not in the declared one.
C17_UrlFromOriginalValues ==
  \A c \in DOMAIN calls :
    calls[c].pc = "awaitFetch" =>
      /\ calls[c].url =
           renderUrl(Endpoint(calls[c].endpoint).template, calls[c].apiKey, calls[c].options).url
      /\ \A i \in DeclaredStrings(c) :
           LET entry == calls[c].options.entries[i]
           IN  IF entry.k \in Placeholders(calls[c].endpoint)
               THEN Contains(SubSeq(BeforeQuery(calls[c].url), Len(baseUrl) + 1,
                                    Len(BeforeQuery(calls[c].url))),
                             encodeURIComponent(entry.v))
               ELSE Contains(QueryOf(calls[c].url),
                             encodeURIComponent(Str(entry.k)) \o << "=" >>
                               \o encodeURIComponent(entry.v) \o << "&" >>)

\* C17 witness: tableOfContents({bible: 'LEB'}) passed validation and its
\* fetch was given .../bible/contents/LEB?key=baz
C17_Witness ==
  \E c \in DOMAIN calls :
    /\ calls[c].pc = "awaitFetch" /\ calls[c].endpoint = "tableOfContents"
    /\ calls[c].options = Obj(<< P("bible", S("LEB")) >>)
    /\ calls[c].url = Lit("https://api.biblia.com/v1/bible/contents/LEB?key=baz")

\* every path placeholder of the endpoint's template is declared in its
\* schema with a rule that is not optional
PlaceholdersAreRequired(name) ==
  \A i \in DOMAIN Endpoint(name).template.names :
    \E j \in DOMAIN Endpoint(name).validateOptions :
      /\ Endpoint(name).validateOptions[j].key = Endpoint(name).template.names[i]
      /\ ~Endpoint(name).validateOptions[j].rule.optional

IsParameterRequired(message) ==
  \E name \in UNION { Range(Endpoint(e).template.names) : e \in EndpointNames } :
    message = Lit("Parameter ") \o name \o Lit(" is required.")

\* C18: every path placeholder of every endpoint is declared with a required
\* rule in that endpoint's schema; hence for every options object that
\* passes validation URL rendering does not fail (the call goes on to its
\* fetch), and no call is rejected with "Parameter <name> is required.".
C18_ValidatedOptionsAlwaysRender ==
  /\ \A name \in EndpointNames : PlaceholdersAreRequired(name)
  /\ \A c \in DOMAIN calls :
       /\ HoldsOptions(c) /\ ~ValidationOf(c).threw =>
            /\ ~renderUrl(Endpoint(calls[c].endpoint).template, calls[c].apiKey,
                          calls[c].options).threw
            /\ calls[c].pc = "awaitFetch"
       /\ ~IsParameterRequired(calls[c].outcome.message)

\* where the parameters of a query string start: at its first character and
\* after each '&'
ParameterStarts(query) == { 1 } \cup { i + 1 : i \in { j \in DOMAIN query : query[j] = "&" } }

\* the parameters of a query string that are named key
KeyParameters(query) ==
  { i \in ParameterStarts(query) : SubSeq(query, i, i + 3) = Lit("key=") }

\* C19: the URL of every call that passed validation and rendering has
\* exactly one query parameter named key; it is the last parameter and its
\* value is the percent-encoded API key of the call's client, whatever the
\* caller put in the options.
C19_SingleFinalKey ==
  \A c \in DOMAIN calls :
    calls[c].pc = "awaitFetch" =>
      LET query == QueryOf(calls[c].url)
          final == Lit("key=") \o encodeURIComponent(Str(calls[c].apiKey))
      IN  /\ calls[c].apiKey \in clients
          /\ Len(query) >= Len(final)
          /\ SubSeq(query, Len(query) - Len(final) + 1, Len(query)) = final
          /\ KeyParameters(query) = { Len(query) - Len(final) + 1 }

\* C19 witness: find was called with query 'x&key=z' on the client whose API
\* key is 's3 cr=t'; its URL carries the option encoded and ends in the one
\* key parameter.
C19_Witness ==
  \E c \in DOMAIN calls :
    /\ calls[c].pc = "awaitFetch" /\ calls[c].endpoint = "find"
    /\ calls[c].apiKey = Lit("s3 cr=t")
    /\ OwnValue(calls[c].options, Lit("query")) = S("x&key=z")
    /\ Contains(calls[c].url, Lit("query=x%26key%3Dz&"))
    /\ KeyParameters(QueryOf(calls[c].url)) =
         { Len(QueryOf(calls[c].url)) - Len(Lit("key=s3%20cr%3Dt")) + 1 }

====
